---- MODULE Spec2Model ----
(***************************************************************************)
(* Model of src/main.py: the income projection calculate_annual_income     *)
(* (office recurrence and three-phase freelance wage curve) followed by    *)
(* calculate_cumulative_income (numpy cumsum), as main() runs them.        *)
(*                                                                         *)
(* Python floats are modelled as exact rationals <<n, d>> in lowest terms  *)
(* with d > 0, so the arithmetic is that of the reals; rounding of IEEE    *)
(* doubles is outside the model.  The one non-real value the code can      *)
(* produce, a complex number from a negative base raised to a fractional   *)
(* power, is the value Complex.                                            *)
(***************************************************************************)
EXTENDS Integers, Sequences, FiniteSets, TLC

VARIABLES params, pc, raised, i, years, income_office, income_freelance,
          current_monthly_salary, work_years, current_hourly_wage, branch,
          divided, cumulative_office, cumulative_freelance

vars == <<params, pc, raised, i, years, income_office, income_freelance,
          current_monthly_salary, work_years, current_hourly_wage, branch,
          divided, cumulative_office, cumulative_freelance>>

-----------------------------------------------------------------------------
(* Bounds of the model. *)

\* Longest simulated range: age_end - age_start + 1 <= MaxYears.
MaxYears == 3

\* Longest series handed directly to calculate_cumulative_income: the office
\* argument and the freelance argument.
MaxLen == 4
MaxLenOther == 2

\* main(): 'age_start': 22.
AgeStart == 22

-----------------------------------------------------------------------------
(* Exact rational arithmetic standing for Python's float operators. *)

Abs(x) == IF x < 0 THEN -x ELSE x

RECURSIVE Gcd(_, _)
Gcd(a, b) == IF b = 0 THEN a ELSE Gcd(b, a % b)

\* The rational n/d in lowest terms with a positive denominator (d # 0).
Rat(n, d) ==
    LET s == IF d < 0 THEN -1 ELSE 1
        g == Gcd(Abs(n), Abs(d))
    IN  <<(s * n) \div g, (s * d) \div g>>

R(n) == <<n, 1>>
Zero == <<0, 1>>
One == <<1, 1>>

\* A complex (non-real) value: what Python's ** gives for a negative base and
\* a fractional exponent.  It is absorbing under multiplication.
Complex == <<0, 0>>
IsComplex(a) == a[2] = 0

\* Sums and products are formed over the least common denominator and after
\* cancelling common factors, which keeps the intermediate integers small.
Add(a, b) ==
    LET g == Gcd(a[2], b[2])
    IN  Rat(a[1] * (b[2] \div g) + b[1] * (a[2] \div g), a[2] * (b[2] \div g))
Sub(a, b) == Add(a, <<-b[1], b[2]>>)
Mul(a, b) ==
    IF IsComplex(a) \/ IsComplex(b) THEN Complex
    ELSE LET x == Rat(a[1], b[2])
             y == Rat(b[1], a[2])
         IN  <<x[1] * y[1], x[2] * y[2]>>
\* a / b for b # 0 (Python raises ZeroDivisionError otherwise, see Ratio).
Div(a, b) == Rat(a[1] * b[2], a[2] * b[1])

Lt(a, b) == a[1] * b[2] < b[1] * a[2]
Le(a, b) == a[1] * b[2] <= b[1] * a[2]

\* np.ceil of a rational, as an integer.
Ceil(a) == -((-a[1]) \div a[2])
Floor(a) == a[1] \div a[2]

RECURSIVE IPow(_, _)
IPow(b, k) == IF k = 0 THEN 1 ELSE b * IPow(b, k - 1)

\* The exact q-th root of a natural number that is a perfect q-th power.
IRoot(n, q) == CHOOSE r \in 0..n : IPow(r, q) = n

\* base ** e for a rational exponent e >= 0, as Python's float power:
\* x ** 0 is 1 for every x; an integral exponent is repeated multiplication;
\* a fractional exponent of a negative base is a complex number; a
\* fractional exponent p/q of a non-negative base is the p-th power of its
\* q-th root (the parameter sets below keep that root rational).
Pow(base, e) ==
    IF e[1] = 0 THEN One
    ELSE IF e[2] = 1 THEN Rat(IPow(base[1], e[1]), IPow(base[2], e[1]))
    ELSE IF base[1] < 0 THEN Complex
    ELSE Rat(IPow(IRoot(base[1], e[2]), e[1]), IPow(IRoot(base[2], e[2]), e[1]))

-----------------------------------------------------------------------------
(* Parameter values the model draws from. *)

AgeEnds == (AgeStart - 1)..(AgeStart + MaxYears - 1)
Salaries == {R(200000)}
BonusMonths == {Rat(1, 2), R(2)}
OfficeRaiseRates == {R(-2), R(-1), Rat(-1, 2), Rat(1, 50)}
EmployeeDeductionRates == {Rat(1, 5), Rat(1, 2)}
LearningMonths == {0, 6, 12}
InitialWages == {Zero, R(2)}
TargetWages == {R(1), R(3)}
TargetReachYears == {R(-1), Zero, Rat(1, 2), R(1), R(2)}
GrowthTypes == {"quadratic", "cubic"}
\* 1 + rate is -1, 1/4 or 4: perfect squares up to sign, so that half-year
\* exponents (a 6-month learning period) have rational powers.
PostRaiseRates == {R(-2), Rat(-3, 4), R(3)}
HoursPerDay == {R(8)}
DaysPerMonth == {R(20)}
ExpenseRates == {Rat(1, 10)}
FreelanceDeductionRates == {Rat(1, 4)}

ParamSpace ==
    [age_start : {AgeStart},
     age_end : AgeEnds,
     deduction_rate_employee : EmployeeDeductionRates,
     deduction_rate_freelance : FreelanceDeductionRates,
     freelance_expense_rate : ExpenseRates,
     office_initial_monthly_net_salary : Salaries,
     office_bonus_months : BonusMonths,
     office_raise_rate : OfficeRaiseRates,
     freelance_learning_period_months : LearningMonths,
     freelance_initial_hourly_wage : InitialWages,
     freelance_target_hourly_wage : TargetWages,
     freelance_target_reach_years : TargetReachYears,
     freelance_hourly_wage_growth_type : GrowthTypes,
     freelance_post_target_raise_rate : PostRaiseRates,
     freelance_work_hours_per_day : HoursPerDay,
     freelance_work_days_per_month : DaysPerMonth]

\* calculate_cumulative_income takes no parameter record; when it is called
\* on its own the variable params keeps this one.
SomeParams == CHOOSE p \in ParamSpace : TRUE

-----------------------------------------------------------------------------
(* The pure pieces of calculate_annual_income. *)

\* np.arange(start, stop): start, start+1, ..., stop-1; empty when stop <= start.
Arange(start, stop) ==
    [k \in 1..(IF stop > start THEN stop - start ELSE 0) |-> start + k - 1]

\* np.zeros(n, dtype=float)
Zeros(n) == [k \in 1..n |-> Zero]

\* Faulty variant: the + 1 of the exclusive stop is forgotten.
YearsArrayStopAtAgeEnd(p) == Arange(p.age_start, p.age_end)

\* years = np.arange(age_start, age_end + 1)
YearsArray(p) == Arange(p.age_start, p.age_end + 1)

\* learning_period_years = learning_period_months / 12.0
LearningYears(p) == Rat(p.freelance_learning_period_months, 12)

\* Faulty variant: the employee deduction rate is applied to the office income.
OfficeAnnualDeducted(p, salary) ==
    Mul(Mul(salary, Add(R(12), p.office_bonus_months)),
        Sub(One, p.deduction_rate_employee))

\* income_office[i] = current_monthly_salary * (12 + office_bonus_months)
OfficeAnnual(p, salary) == Mul(salary, Add(R(12), p.office_bonus_months))

\* Faulty variant: the salary is multiplied by the rate, not by 1 + rate.
RaisedSalaryByRate(p, salary) == Mul(salary, p.office_raise_rate)

\* current_monthly_salary *= (1 + office_raise_rate)
RaisedSalary(p, salary) == Mul(salary, Add(One, p.office_raise_rate))

\* Faulty variant: the learning period is rounded down instead of up.
InLearningFloor(idx, ly) == idx < Floor(ly)

\* years_since_start < np.ceil(learning_period_years)
InLearning(idx, ly) == idx < Ceil(ly)

\* Faulty variant: work years counted from the first paid year (integer reset).
WorkYearsFromCeil(idx, ly) == R(idx - Ceil(ly))

\* work_years = years_since_start - learning_period_years
WorkYears(idx, ly) == Sub(R(idx), ly)

\* Faulty variant: the phase boundary is exclusive on the ramp side.
PhaseIsRampStrict(w, t) == Lt(w, t)

\* if work_years <= fl_target_years:
PhaseIsRamp(w, t) == Le(w, t)

\* Faulty variant: the division is evaluated unconditionally.
DividesByTargetAlways(t) == TRUE

\* ... if fl_target_years > 0 else 1.0: the division is evaluated only then.
DividesByTarget(t) == Lt(Zero, t)

\* ratio = (work_years / fl_target_years) ** 2 if fl_target_years > 0 else 1.0
Ratio(w, t) ==
    IF DividesByTarget(t) THEN LET q == Div(w, t) IN Mul(q, q) ELSE One

\* Faulty variant: the operands of the wage difference are swapped.
RampWageSwapped(p, ratio) ==
    Add(p.freelance_initial_hourly_wage,
        Mul(Sub(p.freelance_initial_hourly_wage, p.freelance_target_hourly_wage),
            ratio))

\* current_hourly_wage = fl_init_wage + (fl_target_wage - fl_init_wage) * ratio
RampWage(p, ratio) ==
    Add(p.freelance_initial_hourly_wage,
        Mul(Sub(p.freelance_target_hourly_wage, p.freelance_initial_hourly_wage),
            ratio))

\* current_hourly_wage = fl_target_wage * ((1 + fl_post_raise_rate) ** years_after_target)
PostWage(p, w) ==
    LET years_after_target == Sub(w, p.freelance_target_reach_years)
    IN  Mul(p.freelance_target_hourly_wage,
            Pow(Add(One, p.freelance_post_target_raise_rate), years_after_target))

\* annual_gross, taxable_income and net_income of one paid year.
NetIncome(p, wage) ==
    LET annual_gross ==
            Mul(Mul(Mul(wage, p.freelance_work_hours_per_day),
                    p.freelance_work_days_per_month), R(12))
        taxable_income == Mul(annual_gross, Sub(One, p.freelance_expense_rate))
    IN  Mul(taxable_income, Sub(One, p.deduction_rate_freelance))

\* Faulty variant: an exclusive scan, out[k] = a[0] + ... + a[k-1].
RECURSIVE CumSumExclusive(_)
CumSumExclusive(a) ==
    IF Len(a) = 0 THEN <<>>
    ELSE LET front == CumSumExclusive(SubSeq(a, 1, Len(a) - 1))
         IN  Append(front,
                    IF Len(front) = 0 THEN Zero
                    ELSE Add(front[Len(front)], a[Len(a) - 1]))

\* np.cumsum: out[0] = a[0], out[k] = out[k-1] + a[k].
RECURSIVE CumSum(_)
CumSum(a) ==
    IF Len(a) = 0 THEN <<>>
    ELSE LET front == CumSum(SubSeq(a, 1, Len(a) - 1))
         IN  Append(front,
                    IF Len(front) = 0 THEN a[Len(a)]
                    ELSE Add(front[Len(front)], a[Len(a)]))

-----------------------------------------------------------------------------
(* The state machine.  pc is the position in main(); i is the number of     *)
(* iterations the current loop has completed, so the loop's next index is  *)
(* i and the locals work_years, current_hourly_wage, branch and divided    *)
(* are those of index i - 1.                                               *)

NumYears == Len(years)

Init ==
    /\ params \in ParamSpace
    /\ pc = "start"
    /\ raised = "none"
    /\ i = 0
    /\ years = <<>>
    /\ income_office = <<>>
    /\ income_freelance = <<>>
    /\ current_monthly_salary = Zero
    /\ work_years = Zero
    /\ current_hourly_wage = Zero
    /\ branch = "none"
    /\ divided = FALSE
    /\ cumulative_office = <<>>
    /\ cumulative_freelance = <<>>

\* calculate_annual_income, lines 12-45: read the parameters, build the
\* years array and the two zero arrays, start the office recurrence.
Enter ==
    /\ pc = "start"
    /\ years' = YearsArray(params)
    /\ income_office' = Zeros(Len(years'))
    /\ income_freelance' = Zeros(Len(years'))
    /\ current_monthly_salary' = params.office_initial_monthly_net_salary
    /\ i' = 0
    /\ pc' = "office"
    /\ UNCHANGED <<params, raised, work_years, current_hourly_wage, branch,
                   divided, cumulative_office, cumulative_freelance>>

\* One iteration of the office loop, lines 46-50.
OfficeIteration ==
    /\ pc = "office"
    /\ i < NumYears
    /\ income_office' =
           [income_office EXCEPT ![i + 1] = OfficeAnnual(params, current_monthly_salary)]
    /\ current_monthly_salary' = RaisedSalary(params, current_monthly_salary)
    /\ i' = i + 1
    /\ UNCHANGED <<params, pc, raised, years, income_freelance, work_years,
                   current_hourly_wage, branch, divided, cumulative_office,
                   cumulative_freelance>>

\* The office loop is exhausted; the freelance loop starts (line 53).
OfficeLoopEnd ==
    /\ pc = "office"
    /\ i = NumYears
    /\ pc' = "freelance"
    /\ i' = 0
    /\ UNCHANGED <<params, raised, years, income_office, income_freelance,
                   current_monthly_salary, work_years, current_hourly_wage,
                   branch, divided, cumulative_office, cumulative_freelance>>

\* A year inside the learning period, lines 57-59.
FreelanceLearning ==
    /\ pc = "freelance"
    /\ i < NumYears
    /\ InLearning(i, LearningYears(params))
    /\ income_freelance' = [income_freelance EXCEPT ![i + 1] = Zero]
    /\ branch' = "learning"
    /\ i' = i + 1
    /\ UNCHANGED <<params, pc, raised, years, income_office,
                   current_monthly_salary, work_years, current_hourly_wage,
                   divided, cumulative_office, cumulative_freelance>>

\* A paid year on the ramp, lines 62-68 and 74-80.  Were the division of
\* line 67 evaluated with a zero divisor, Python would raise
\* ZeroDivisionError there.
FreelanceRamp ==
    /\ pc = "freelance"
    /\ i < NumYears
    /\ ~InLearning(i, LearningYears(params))
    /\ LET w == WorkYears(i, LearningYears(params))
           t == params.freelance_target_reach_years
       IN  /\ PhaseIsRamp(w, t)
           /\ work_years' = w
           /\ branch' = "ramp"
           /\ divided' = DividesByTarget(t)
           /\ IF DividesByTarget(t) /\ t = Zero
              THEN /\ pc' = "raised"
                   /\ raised' = "ZeroDivisionError"
                   /\ UNCHANGED <<i, current_hourly_wage, income_freelance>>
              ELSE /\ current_hourly_wage' = RampWage(params, Ratio(w, t))
                   /\ income_freelance' =
                          [income_freelance EXCEPT
                              ![i + 1] = NetIncome(params, current_hourly_wage')]
                   /\ i' = i + 1
                   /\ UNCHANGED <<pc, raised>>
    /\ UNCHANGED <<params, years, income_office, current_monthly_salary,
                   cumulative_office, cumulative_freelance>>

\* A paid year after the target, lines 62, 69-71 and 74-80.  A complex
\* net_income cannot be stored in the float array: numpy raises TypeError
\* at line 80.
FreelancePost ==
    /\ pc = "freelance"
    /\ i < NumYears
    /\ ~InLearning(i, LearningYears(params))
    /\ LET w == WorkYears(i, LearningYears(params))
           t == params.freelance_target_reach_years
       IN  /\ ~PhaseIsRamp(w, t)
           /\ work_years' = w
           /\ branch' = "post"
           /\ divided' = FALSE
           /\ current_hourly_wage' = PostWage(params, w)
           /\ IF IsComplex(NetIncome(params, current_hourly_wage'))
              THEN /\ pc' = "raised"
                   /\ raised' = "TypeError"
                   /\ UNCHANGED <<i, income_freelance>>
              ELSE /\ income_freelance' =
                          [income_freelance EXCEPT
                              ![i + 1] = NetIncome(params, current_hourly_wage')]
                   /\ i' = i + 1
                   /\ UNCHANGED <<pc, raised>>
    /\ UNCHANGED <<params, years, income_office, current_monthly_salary,
                   cumulative_office, cumulative_freelance>>

\* return years, income_office, income_freelance (line 82).
Return ==
    /\ pc = "freelance"
    /\ i = NumYears
    /\ pc' = "returned"
    /\ UNCHANGED <<params, raised, i, years, income_office, income_freelance,
                   current_monthly_salary, work_years, current_hourly_wage,
                   branch, divided, cumulative_office, cumulative_freelance>>

\* calculate_cumulative_income, lines 84-90.
CalculateCumulativeIncome ==
    /\ pc = "returned"
    /\ cumulative_office' = CumSum(income_office)
    /\ cumulative_freelance' = CumSum(income_freelance)
    /\ pc' = "done"
    /\ UNCHANGED <<params, raised, i, years, income_office, income_freelance,
                   current_monthly_salary, work_years, current_hourly_wage,
                   branch, divided>>

Next ==
    \/ Enter
    \/ OfficeIteration
    \/ OfficeLoopEnd
    \/ FreelanceLearning
    \/ FreelanceRamp
    \/ FreelancePost
    \/ Return
    \/ CalculateCumulativeIncome

Spec == Init /\ [][Next]_vars

-----------------------------------------------------------------------------
(* calculate_cumulative_income called on its own, with arbitrary series.   *)

SeqsUpTo(S, n) == UNION {[1..k -> S] : k \in 0..n}
OfficeSeriesValues == {Zero, R(100), R(200), R(300)}
FreelanceSeriesValues == {R(-50), Zero, Rat(1, 2)}

InitCumulative ==
    /\ params = SomeParams
    /\ pc = "returned"
    /\ raised = "none"
    /\ income_office \in SeqsUpTo(OfficeSeriesValues, MaxLen)
    /\ income_freelance \in SeqsUpTo(FreelanceSeriesValues, MaxLenOther)
    /\ years = Arange(AgeStart, AgeStart + Len(income_office))
    /\ i = 0
    /\ current_monthly_salary = Zero
    /\ work_years = Zero
    /\ current_hourly_wage = Zero
    /\ branch = "none"
    /\ divided = FALSE
    /\ cumulative_office = <<>>
    /\ cumulative_freelance = <<>>

NextCumulative == CalculateCumulativeIncome

SpecCumulative == InitCumulative /\ [][NextCumulative]_vars

-----------------------------------------------------------------------------
(* Properties.  Sequences are 1-based: index k of the model is index k - 1 *)
(* of the code.                                                            *)

Returned == pc \in {"returned", "done"}
NonNeg(a) == a[1] >= 0
T == params.freelance_target_reach_years

\* The domain of section 3 of the specification.
InDomain(p) ==
    /\ p.age_start <= p.age_end
    /\ Lt(Zero, p.office_initial_monthly_net_salary)
    /\ NonNeg(p.office_bonus_months)
    /\ p.freelance_learning_period_months >= 0
    /\ NonNeg(p.freelance_initial_hourly_wage)
    /\ NonNeg(p.freelance_target_hourly_wage)
    /\ NonNeg(p.freelance_target_reach_years)
    /\ p.freelance_hourly_wage_growth_type = "quadratic"
    /\ Lt(Zero, p.freelance_work_hours_per_day)
    /\ Lt(Zero, p.freelance_work_days_per_month)
    /\ NonNeg(p.freelance_expense_rate) /\ Lt(p.freelance_expense_rate, One)
    /\ NonNeg(p.deduction_rate_freelance) /\ Lt(p.deduction_rate_freelance, One)

\* Neither raise rate is below -100%.
RatesAtLeastMinusOne(p) ==
    /\ Le(R(-1), p.office_raise_rate)
    /\ Le(R(-1), p.freelance_post_target_raise_rate)

\* The configurations section 7 of the specification calls invalid.
InvalidConfig(p) ==
    \/ p.age_start > p.age_end
    \/ Lt(p.freelance_target_reach_years, Zero)
    \/ p.freelance_hourly_wage_growth_type # "quadratic"

\* C1: an invalid configuration (age_start > age_end, a negative
\* freelance_target_reach_years, an unrecognized growth type) is rejected:
\* calculate_annual_income never returns series for it.
C1_InvalidConfigRejected == InvalidConfig(params) => ~Returned

AllNonNeg ==
    /\ \A k \in 1..Len(income_office) : NonNeg(income_office[k])
    /\ \A k \in 1..Len(income_freelance) : NonNeg(income_freelance[k])

\* C2 as stated: for every in-domain parameter record, whatever the raise
\* rates, every element of both returned series is non-negative.
C2_NonNegativeForAnyRate == (Returned /\ InDomain(params)) => AllNonNeg

\* C2 amended: for every in-domain parameter record whose office_raise_rate
\* and freelance_post_target_raise_rate are both >= -1, every element of
\* both series is non-negative (in every state, hence in what is returned).
C2_NonNegative == (InDomain(params) /\ RatesAtLeastMinusOne(params)) => AllNonNeg

C2_Witness ==
    /\ pc = "returned"
    /\ InDomain(params) /\ RatesAtLeastMinusOne(params)
    /\ Lt(params.office_raise_rate, Zero)
    /\ Lt(params.freelance_post_target_raise_rate, Zero)
    /\ Len(years) >= 3
    /\ branch = "post"
    /\ Lt(Zero, income_freelance[Len(years)])
    /\ Lt(Zero, income_office[Len(years)])

\* C3: for age_start <= age_end the three returned sequences have length
\* age_end - age_start + 1 and years[i] = age_start + i.
C3_LengthInvariant ==
    (Returned /\ params.age_start <= params.age_end) =>
        /\ Len(years) = params.age_end - params.age_start + 1
        /\ Len(income_office) = Len(years)
        /\ Len(income_freelance) = Len(years)
        /\ \A k \in 1..Len(years) : years[k] = params.age_start + (k - 1)

C3_Witness ==
    /\ pc = "returned"
    /\ params.age_end = params.age_start + 2
    /\ years = <<params.age_start, params.age_start + 1, params.age_start + 2>>
    /\ Len(income_office) = 3 /\ Len(income_freelance) = 3

\* C4: office[0] = office_initial_monthly_net_salary * (12 + office_bonus_months)
\* and office[i+1] = office[i] * (1 + office_raise_rate): the returned office
\* series is fixed by the three office parameters and the length alone (no
\* deduction, no freelance parameter).
C4_OfficeRecurrence ==
    Returned =>
        /\ Len(income_office) >= 1 =>
               income_office[1] =
                   Mul(params.office_initial_monthly_net_salary,
                       Add(R(12), params.office_bonus_months))
        /\ \A k \in 1..(Len(income_office) - 1) :
               income_office[k + 1] =
                   Mul(income_office[k], Add(One, params.office_raise_rate))

C4_Witness ==
    /\ pc = "returned"
    /\ Len(income_office) >= 3
    /\ params.office_initial_monthly_net_salary = R(200000)
    /\ params.office_bonus_months = R(2)
    /\ params.office_raise_rate = Rat(1, 50)
    /\ income_office[1] = R(2800000)
    /\ income_office[2] = R(2856000)
    /\ income_office[3] = Rat(14565600, 5)

\* C5: freelance[i] = 0 for every i < ceil(freelance_learning_period_months / 12),
\* and with a learning period of 0 months index 0 is not suppressed: it is
\* computed from the wage formula.
C5_LearningZeroing ==
    /\ \A k \in 1..Len(income_freelance) :
           (k - 1) < Ceil(Rat(params.freelance_learning_period_months, 12))
               => income_freelance[k] = Zero
    /\ (params.freelance_learning_period_months = 0 /\ pc = "freelance" /\ i = 1)
           => /\ branch \in {"ramp", "post"}
              /\ work_years = Zero
              /\ income_freelance[1] = NetIncome(params, current_hourly_wage)

C5_Witness ==
    /\ pc = "returned"
    /\ params.freelance_learning_period_months = 6
    /\ Len(income_freelance) >= 2
    /\ income_freelance[1] = Zero
    /\ Lt(Zero, income_freelance[2])

\* The sum of the first k elements of a series, by direct summation.
RECURSIVE SumTo(_, _)
SumTo(a, k) == IF k = 0 THEN Zero ELSE Add(SumTo(a, k - 1), a[k])

IsRunningSum(c, a) ==
    /\ Len(c) = Len(a)
    /\ \A k \in 1..Len(a) : c[k] = SumTo(a, k)

\* C6: each result of calculate_cumulative_income has the length of its own
\* input and element i is the sum of that input's elements 0..i; an empty
\* input gives an empty output; [100, 200, 0, 300] gives [100, 300, 300, 600].
C6_CumulativeCorrect ==
    pc = "done" =>
        /\ IsRunningSum(cumulative_office, income_office)
        /\ IsRunningSum(cumulative_freelance, income_freelance)
        /\ income_office = <<>> => cumulative_office = <<>>
        /\ income_freelance = <<>> => cumulative_freelance = <<>>
        /\ income_office = <<R(100), R(200), Zero, R(300)>>
               => cumulative_office = <<R(100), R(300), R(300), R(600)>>

C6_Witness ==
    /\ pc = "done"
    /\ income_office = <<R(100), R(200), Zero, R(300)>>
    /\ cumulative_office = <<R(100), R(300), R(300), R(600)>>
    /\ income_freelance = <<>>
    /\ cumulative_freelance = <<>>

\* c never decreases, and stays equal only where the annual income is 0.
Monotone(c, a) ==
    \A k \in 2..Len(c) :
        /\ Le(c[k - 1], c[k])
        /\ c[k] = c[k - 1] => a[k] = Zero

BothMonotone ==
    /\ Monotone(cumulative_office, income_office)
    /\ Monotone(cumulative_freelance, income_freelance)

\* C7 as stated: for every in-domain parameter record, whatever the raise
\* rates, both cumulative series are non-decreasing, with equality only at
\* a zero annual income.
C7_MonotoneForAnyRate == (pc = "done" /\ InDomain(params)) => BothMonotone

\* C7 amended: the same for in-domain records whose office_raise_rate and
\* freelance_post_target_raise_rate are both >= -1.
C7_Monotone ==
    (pc = "done" /\ InDomain(params) /\ RatesAtLeastMinusOne(params))
        => BothMonotone

C7_Witness ==
    /\ pc = "done"
    /\ InDomain(params) /\ RatesAtLeastMinusOne(params)
    /\ params.freelance_learning_period_months = 12
    /\ Len(cumulative_freelance) >= 3
    /\ cumulative_freelance[2] = cumulative_freelance[1]
    /\ Lt(cumulative_freelance[2], cumulative_freelance[3])
    /\ Lt(cumulative_office[1], cumulative_office[2])

\* C8: with freelance_target_reach_years = 0 the division by it is never
\* evaluated (no ZeroDivisionError, whatever the learning period and index)
\* and the wage at work_years = 0 is freelance_target_hourly_wage.
C8_ImmediateTarget ==
    T = Zero =>
        /\ ~divided
        /\ raised # "ZeroDivisionError"
        /\ (pc # "raised" /\ branch \in {"ramp", "post"} /\ work_years = Zero)
               => current_hourly_wage = params.freelance_target_hourly_wage

C8_Witness ==
    /\ T = Zero
    /\ pc = "freelance"
    /\ branch = "ramp"
    /\ work_years = Zero
    /\ ~divided
    /\ current_hourly_wage = params.freelance_target_hourly_wage
    /\ current_hourly_wage # params.freelance_initial_hourly_wage

\* The two formulas of section 4.1 of the specification.
RampFormula(p, w) ==
    LET q == Div(w, p.freelance_target_reach_years)
    IN  Add(p.freelance_initial_hourly_wage,
            Mul(Sub(p.freelance_target_hourly_wage, p.freelance_initial_hourly_wage),
                Mul(q, q)))

CompoundFormula(p, w) ==
    Mul(p.freelance_target_hourly_wage,
        Pow(Add(One, p.freelance_post_target_raise_rate),
            Sub(w, p.freelance_target_reach_years)))

\* C9: a paid year uses the ramp formula exactly when
\* work_years <= target_reach_years and the compounding formula exactly
\* when work_years > target_reach_years; at work_years = target_reach_years
\* the wage is the target wage, which is also what the compounding formula
\* gives there.
C9_RampContinuity ==
    (pc # "raised" /\ branch \in {"ramp", "post"}) =>
        /\ branch = "ramp" <=> Le(work_years, T)
        /\ branch = "post" <=> Lt(T, work_years)
        /\ (branch = "ramp" /\ Lt(Zero, T))
               => current_hourly_wage = RampFormula(params, work_years)
        /\ branch = "post"
               => current_hourly_wage = CompoundFormula(params, work_years)
        /\ work_years = T
               => /\ current_hourly_wage = params.freelance_target_hourly_wage
                  /\ CompoundFormula(params, work_years)
                         = params.freelance_target_hourly_wage

C9_Witness ==
    /\ pc = "freelance"
    /\ branch = "ramp"
    /\ work_years = T
    /\ T = Rat(1, 2)
    /\ current_hourly_wage = params.freelance_target_hourly_wage
    /\ current_hourly_wage # params.freelance_initial_hourly_wage

\* The wage curve of section 4.1 of the specification.
WageCurve(p, w) ==
    IF Le(w, p.freelance_target_reach_years)
    THEN IF Lt(Zero, p.freelance_target_reach_years)
         THEN RampFormula(p, w)
         ELSE p.freelance_target_hourly_wage
    ELSE CompoundFormula(p, w)

\* C10: every paid index i (i >= ceil(learning_years)) is evaluated at the
\* fractional work_years = i - learning_years, and freelance[i] is
\* wage(work_years) * hours * days * 12 * (1 - expense) * (1 - deduction);
\* with a 6-month learning period index 1 is computed at work_years = 1/2.
C10_FractionalWorkYears ==
    (pc \in {"freelance", "returned", "done"} /\ branch \in {"ramp", "post"}) =>
        LET ly == Rat(params.freelance_learning_period_months, 12)
            gross == Mul(Mul(Mul(WageCurve(params, work_years),
                                 params.freelance_work_hours_per_day),
                             params.freelance_work_days_per_month), R(12))
        IN  /\ i - 1 >= Ceil(ly)
            /\ work_years = Sub(R(i - 1), ly)
            /\ income_freelance[i] =
                   Mul(Mul(gross, Sub(One, params.freelance_expense_rate)),
                       Sub(One, params.deduction_rate_freelance))
            /\ (params.freelance_learning_period_months = 6 /\ i = 2)
                   => work_years = Rat(1, 2)

C10_Witness ==
    /\ pc = "freelance"
    /\ i = 2
    /\ params.freelance_learning_period_months = 6
    /\ branch = "ramp"
    /\ work_years = Rat(1, 2)
    /\ T = R(2)
    /\ current_hourly_wage # params.freelance_initial_hourly_wage
    /\ Lt(Zero, income_freelance[2])

====
